---- MODULE Spec2Model ----
(***************************************************************************)
(* A model of fuzzer.cc: the tensor size resolver (sizeof_dtype,           *)
(* sizeof_tensor), the page-locked buffer class HostMemory, set_io, the    *)
(* stream / graph wrappers and the setup and steady-state loop of main.    *)
(*                                                                         *)
(* The specifications share the variables:                                 *)
(*   SpecSize  applies sizeof_tensor to one introspected tensor;           *)
(*   SpecMem   drives HostMemory objects through construction, move        *)
(*             construction, randomize and destruction in any order;       *)
(*   SpecDtor  constructs and destroys HostMemory and Stream objects in    *)
(*             any order;                                                  *)
(*   Spec      is main(), statement by statement, with every external      *)
(*             call free to succeed or fail;                               *)
(*   SpecLive  is Spec with the fairness of a thread that keeps running.   *)
(***************************************************************************)
EXTENDS Integers, Sequences, FiniteSets, TLC

VARIABLES
    tensor,     \* SpecSize: what introspection reports for the tensor (lines 36-42)
    resolved,   \* SpecSize: the outcome of sizeof_tensor(context, name)
    heap,       \* the page-locked regions cudaMallocHost has handed out
    objs,       \* SpecMem: the HostMemory objects (ptr_, size_, lifetime)
    gen,        \* the number of words drawn from the random engine so far
    memStatus,  \* SpecMem, SpecDtor: how the last operation on an object ended
    pc,         \* Spec: the statement of main about to run (index in main_program)
    status,     \* Spec: "running", or how the process ended
    iter,       \* Spec: the loop counter i of line 282
    numIO,      \* Spec: getNbIOTensors() of each unit's engine (line 109)
    io,         \* Spec: per unit, the I/O tensors set_io has introspected so far
    buffers,    \* Spec: per unit, the IOBuffers (inputs, outputs and capacities)
    bound,      \* Spec: per unit, the address table of its execution context
    stream,     \* Spec: per unit, its Stream and the work submitted on it
                \* (SpecDtor: whether the Stream is constructed or destroyed)
    graph,      \* Spec: per unit, its Graph and GraphExec
    trace       \* Spec: the calls made on the runtime, in order

sizeVars == <<tensor, resolved>>

memVars == <<heap, objs, gen, memStatus>>

mainVars == <<pc, status, iter, numIO, io, buffers, bound, stream, graph, trace>>

vars == <<tensor, resolved, heap, objs, gen, memStatus,
          pc, status, iter, numIO, io, buffers, bound, stream, graph, trace>>

(***************************************************************************)
(* Bounds of the model.                                                    *)
(***************************************************************************)
\* the largest number of dimensions (nbDims) of an introspected tensor
MaxDims == 3

\* the page-locked regions the allocator hands out before SpecMem stops
\* constructing
MaxRegions == 2

\* the HostMemory objects SpecMem constructs
MaxObjs == 3

\* the words the random engine produces before SpecMem stops randomizing
MaxDraws == 3

\* the most I/O tensors the two engines of Spec report together
\* (getNbIOTensors of engine0 plus that of engine1)
MaxIO == 3

\* the iterations of the steady-state loop Spec follows (the loop itself has
\* no bound)
MaxIter == 2

\* sizeof(std::default_random_engine::result_type), line 87: uint_fast32_t,
\* 8 bytes on the x86-64 Linux build
RandWordSize == 8

\* the byte sizes HostMemory is constructed with in SpecMem: nothing, less than
\* a word, a word and a partial word, two words and a byte
BufSizes == {0, 3, 12, 17}

\* nvinfer1::Dims::MAX_DIMS: shape.d is an array of this many int32_t
MAX_DIMS == 8

\* the extents a dimension takes in the model; 32768 and 65536 make the
\* products pass 2^31 - 1 and 2^32
Extents == {0, 3, 7, 8, 32768, 65536}

\* component-group sizes getTensorComponentsPerElement reports for the
\* vectorized formats (kCHW2, kCHW4, kHWC8)
GroupSizes == {2, 4, 8}

\* what getTensorComponentsPerElement reports for a tensor whose format is
\* not vectorized (kHWC, for one)
NotVectorized == -1

\* the DataType tags of the switch in sizeof_dtype, and one tag outside it
KnownDTypes == {"kFLOAT", "kHALF", "kINT8", "kINT32", "kBOOL", "kUINT8", "kFP8"}
DTypes == KnownDTypes \cup {"kOTHER"}

(***************************************************************************)
(* Fixed-width integers.  An int is a 32-bit two's complement value, which *)
(* is exactly the range of the model checker's integers; a size_t and the  *)
(* exact products are little-endian sequences of base-256 digits, so that  *)
(* no intermediate value leaves that range.                                *)
(***************************************************************************)
RECURSIVE ToLimbs(_, _)
\* the len low base-256 digits of n in two's complement (n of either sign)
ToLimbs(n, len) ==
    IF len = 0 THEN <<>> ELSE <<n % 256>> \o ToLimbs(n \div 256, len - 1)

RECURSIVE MulCarry(_, _, _, _)
MulCarry(a, m, k, carry) ==
    IF k > Len(a) THEN <<>>
    ELSE LET p == a[k] * m + carry
         IN  <<p % 256>> \o MulCarry(a, m, k + 1, p \div 256)

\* a * m modulo 256^Len(a), for 0 <= m < 2^22
MulSmall(a, m) == MulCarry(a, m, 1, 0)

\* the int a 4-digit two's complement sequence stands for
FromLimbs32(a) ==
    a[1] + 256 * a[2] + 65536 * a[3]
      + 16777216 * (IF a[4] >= 128 THEN a[4] - 256 ELSE a[4])

\* int * int (line 48, line 50): the wrapped product, and whether the exact
\* product leaves the range of int (signed overflow)
IntMul(s, m) ==
    LET wide == MulSmall(ToLimbs(s, 8), m)
        ext  == IF wide[4] >= 128 THEN 255 ELSE 0
    IN  [val      |-> FromLimbs32(SubSeq(wide, 1, 4)),
         overflow |-> \E k \in 5..8 : wide[k] # ext]

\* int % int (line 43) for b # 0: the remainder of the division that
\* truncates towards zero, which has the sign of a
IntRem(a, b) ==
    LET abs(x) == IF x < 0 THEN -x ELSE x
        r      == abs(a) % abs(b)
    IN  IF a < 0 THEN -r ELSE r

\* the conversion of the int size to the size_t the function returns
\* (line 52): sign extension to 64 bits
IntToSizeT(s) == ToLimbs(s, 8)

\* a sizeof_dtype whose default case guesses a width of 4
sizeof_dtype_default_width(dtype) ==
    IF dtype \in {"kHALF"} THEN [thrown |-> FALSE, value |-> 2]
    ELSE IF dtype \in {"kINT8", "kBOOL", "kUINT8", "kFP8"}
    THEN [thrown |-> FALSE, value |-> 1]
    ELSE [thrown |-> FALSE, value |-> 4]

(***************************************************************************)
(* sizeof_dtype, lines 22-33: the width of the element type, or the        *)
(* thrown std::invalid_argument (then value is not a result).              *)
(***************************************************************************)
sizeof_dtype(dtype) ==
    CASE dtype = "kFLOAT" -> [thrown |-> FALSE, value |-> 4]
      [] dtype = "kHALF"  -> [thrown |-> FALSE, value |-> 2]
      [] dtype = "kINT8"  -> [thrown |-> FALSE, value |-> 1]
      [] dtype = "kINT32" -> [thrown |-> FALSE, value |-> 4]
      [] dtype = "kBOOL"  -> [thrown |-> FALSE, value |-> 1]
      [] dtype = "kUINT8" -> [thrown |-> FALSE, value |-> 1]
      [] dtype = "kFP8"   -> [thrown |-> FALSE, value |-> 1]
      [] OTHER            -> [thrown |-> TRUE,  value |-> 0]

(***************************************************************************)
(* sizeof_tensor, lines 35-53.                                             *)
(*                                                                         *)
(* A tensor t is what introspection reports: nbDims and d (getTensorShape),*)
(* dtype, format, vecDim (getTensorVectorizedDim, which the code never     *)
(* calls) and cpe (getTensorComponentsPerElement).                         *)
(***************************************************************************)
\* lines 40-44: both vectorized_dimension and components_per_element are read
\* from getTensorComponentsPerElement.  shape is an nvinfer1::Dims,
\* { int32_t nbDims; int32_t d[MAX_DIMS]; }, and the result is the set of
\* values shape can have at line 46; ub tells that line 43 indexed outside
\* shape.d, which is undefined behaviour: a build that checks the index ends
\* the process there, and the others carry on with one of the values here.
\*   An index inside shape.d pads that entry.
\*   Index -1 is the address of shape.nbDims: the build does the += on
\*     nbDims, or leaves the whole of shape as it was.
\*   Any other index is outside shape: shape is left as it was.
pad_shape(t) ==
    LET shape == [nbDims |-> t.nbDims, d |-> t.d, ub |-> FALSE]
    IN  IF t.format = "kLINEAR" THEN {shape}
        ELSE LET vectorized_dimension   == t.cpe
                 components_per_element == t.cpe
                 padded(x) == x + (components_per_element
                                     - IntRem(x, components_per_element))
             IN  IF vectorized_dimension \in 0..(MAX_DIMS - 1)
                 THEN {[shape EXCEPT !.d[vectorized_dimension] = padded(@)]}
                 ELSE IF vectorized_dimension = -1
                 THEN {[shape EXCEPT !.nbDims = padded(@), !.ub = TRUE],
                       [shape EXCEPT !.ub = TRUE]}
                 ELSE {[shape EXCEPT !.ub = TRUE]}

RECURSIVE size_loop(_, _, _, _)
\* lines 46-49: auto size = 1 is an int, multiplied by each extent in turn
size_loop(d, nbDims, dim, acc) ==
    IF dim >= nbDims THEN acc
    ELSE LET p == IntMul(acc.val, d[dim])
         IN  size_loop(d, nbDims, dim + 1,
                       [val |-> p.val, overflow |-> acc.overflow \/ p.overflow])

NoSize == <<>>

\* lines 46-52 for one value of shape at line 46.  Without undefined behaviour
\* there is one outcome: the returned size_t, or the exception of sizeof_dtype.
\* Signed overflow of the int product is undefined: the build either carries
\* on with the wrapped product, or the process crashes; and the process may
\* have crashed at line 43 when that line indexed outside shape.d.
size_of_shape(shape, dtype) ==
    LET prod  == size_loop(shape.d, shape.nbDims, 0, [val |-> 1, overflow |-> FALSE])
        width == sizeof_dtype(dtype)
        fin   == IntMul(prod.val, width.value)
        ub    == shape.ub \/ prod.overflow \/ (~width.thrown /\ fin.overflow)
    IN  { IF width.thrown
          THEN [kind |-> "throw", size |-> NoSize]
          ELSE [kind |-> "return", size |-> IntToSizeT(fin.val)] }
        \cup (IF ub THEN {[kind |-> "crash", size |-> NoSize]} ELSE {})

\* The set of outcomes of sizeof_tensor on t: those of each value line 43 can
\* leave in shape.
sizeof_tensor(t) ==
    UNION { size_of_shape(shape, t.dtype) : shape \in pad_shape(t) }

(***************************************************************************)
(* The tensors of the model.                                               *)
(***************************************************************************)
\* shape.d for the extents e of the nbDims dimensions; the entries past
\* nbDims are zero
DimsOf(n, e) == [k \in 0..(MAX_DIMS - 1) |-> IF k < n THEN e[k] ELSE 0]

\* the shapes of at most n dimensions
Shapes(n) ==
    UNION { { [nbDims |-> k, d |-> DimsOf(k, e)] : e \in [0..(k - 1) -> Extents] }
            : k \in 0..n }

LinearTensors(n) ==
    { [nbDims |-> s.nbDims, d |-> s.d, dtype |-> ty,
       format |-> "kLINEAR", vecDim |-> -1, cpe |-> 1]
      : s \in Shapes(n), ty \in DTypes }

VectorizedTensors(n) ==
    UNION { { [nbDims |-> s.nbDims, d |-> s.d, dtype |-> ty,
               format |-> "kVECTORIZED", vecDim |-> v, cpe |-> c]
              : v \in 0..(s.nbDims - 1), c \in GroupSizes }
            : s \in Shapes(n), ty \in DTypes }

\* tensors of a format that is neither linear nor vectorized (kHWC): there
\* is no packed dimension and no component group
UnvectorizedTensors(n) ==
    { [nbDims |-> s.nbDims, d |-> s.d, dtype |-> ty,
       format |-> "kHWC", vecDim |-> -1, cpe |-> NotVectorized]
      : s \in Shapes(n), ty \in DTypes }

\* the tensors of at most n dimensions
Tensors(n) ==
    LinearTensors(n) \cup VectorizedTensors(n) \cup UnvectorizedTensors(n)

Unresolved == [kind |-> "none", size |-> NoSize]

(***************************************************************************)
(* The page-locked allocator as HostMemory uses it.  An address is the     *)
(* number of the region, nullptr is 0.  A region keeps its size, how often *)
(* it was passed to cudaFreeHost, and its bytes followed by RandWordSize   *)
(* sentinel bytes; a byte holds 0 until randomize writes it, and then the  *)
(* number of the engine draw that wrote it.                                *)
(***************************************************************************)
nullptr == 0

NoRegion == [state |-> "unallocated", size |-> 0, frees |-> 0, data |-> <<>>]

EmptyHeap(n) == [r \in 1..n |-> NoRegion]

\* the address the next successful cudaMallocHost returns
FreshRegions(h) ==
    { r \in DOMAIN h : /\ h[r].state = "unallocated"
                       /\ \A q \in DOMAIN h : q < r => h[q].state # "unallocated" }

\* line 59, cudaMallocHost(&ptr_, size) returning cudaSuccess with address r
cudaMallocHost(h, r, size) ==
    [h EXCEPT ![r] = [state |-> "allocated", size |-> size, frees |-> 0,
                      data  |-> [k \in 1..(size + RandWordSize) |-> 0]]]

\* line 66, cudaFreeHost(ptr_): a null pointer names no region
cudaFreeHost(h, ptr) ==
    IF ptr = nullptr THEN h
    ELSE [h EXCEPT ![ptr].state = "freed", ![ptr].frees = @ + 1]

(***************************************************************************)
(* HostMemory, lines 55-94.                                                *)
(***************************************************************************)
\* lines 57-63, the constructor when cudaMallocHost returned address ptr
HostMemory_ctor(size, ptr) == [ptr_ |-> ptr, size_ |-> size]

\* a move constructor that copies and leaves its source as it was
HostMemory_move_keeps_source(o) ==
    [self |-> [ptr_ |-> o.ptr_, size_ |-> o.size_], o |-> o]

\* lines 75-80, HostMemory(HostMemory&& o): the new object and what is left of o
HostMemory_move(o) ==
    [self |-> [ptr_ |-> o.ptr_, size_ |-> o.size_],
     o    |-> [ptr_ |-> nullptr, size_ |-> 0]]

\* line 82
HostMemory_data(m) == m.ptr_

\* a word count rounded up instead of down
randomize_words_rounded_up(m) ==
    (m.size_ + RandWordSize - 1) \div RandWordSize

\* line 88, the number of rand_t words std::generate assigns
randomize_words(m) == m.size_ \div RandWordSize

\* lines 86-89, randomize: the bytes of the region at ptr_ after std::generate
\* has assigned the words [0, size_ / sizeof(rand_t)), the engine having
\* produced g words before
HostMemory_randomize(m, data, g) ==
    [k \in DOMAIN data |->
        IF k <= RandWordSize * randomize_words(m)
        THEN g + ((k - 1) \div RandWordSize) + 1
        ELSE data[k]]

\* randomize applied to the heap (nothing is addressed through a null ptr_
\* with no words to write)
randomize_heap(h, m, g) ==
    IF m.ptr_ = nullptr THEN h
    ELSE [h EXCEPT ![m.ptr_].data = HostMemory_randomize(m, @, g)]

NoObject == [state |-> "none", m |-> [ptr_ |-> nullptr, size_ |-> 0],
             movedFrom |-> FALSE]

\* what SpecMem records of the last HostMemory operation: the operation, the
\* object, how it ended ("ok", "bad_alloc" thrown, "aborted" by std::abort) and
\* the pointer a destructor passed to cudaFreeHost
MemOp(op, o, result, freed) ==
    [op |-> op, obj |-> o, result |-> result, freed |-> freed, calls |-> <<>>]

\* a call a destructor made and whether it returned cudaSuccess
DtorCall(op, ok) == [op |-> op, ok |-> ok]

\* lines 65-70, ~HostMemory: cudaFreeHost(ptr_), and std::abort() when it did
\* not return cudaSuccess
HostMemory_dtor(freeOk) ==
    [result |-> IF freeOk THEN "ok" ELSE "aborted",
     calls  |-> << DtorCall("cudaFreeHost", freeOk) >>]

\* a ~Stream that destroys the stream whatever the synchronize returned
Stream_dtor_ignores_synchronize(syncOk, destroyOk) ==
    [result |-> IF destroyOk THEN "ok" ELSE "aborted",
     calls  |-> << DtorCall("cudaStreamSynchronize", syncOk),
                   DtorCall("cudaStreamDestroy", destroyOk) >>]

\* lines 141-148, ~Stream: cudaStreamSynchronize, std::abort() when it failed;
\* then cudaStreamDestroy, std::abort() when it failed
Stream_dtor(syncOk, destroyOk) ==
    IF ~syncOk
    THEN [result |-> "aborted",
          calls  |-> << DtorCall("cudaStreamSynchronize", FALSE) >>]
    ELSE [result |-> IF destroyOk THEN "ok" ELSE "aborted",
          calls  |-> << DtorCall("cudaStreamSynchronize", TRUE),
                        DtorCall("cudaStreamDestroy", destroyOk) >>]

MemIdle ==
    /\ heap = EmptyHeap(0)
    /\ objs = <<>>
    /\ gen = 0
    /\ memStatus = MemOp("idle", 0, "ok", nullptr)

SizeIdle ==
    /\ tensor = "none"
    /\ resolved = Unresolved

MainIdle ==
    /\ pc = 0
    /\ status = "idle"
    /\ iter = 0
    /\ numIO = <<>>
    /\ io = <<>>
    /\ buffers = <<>>
    /\ bound = <<>>
    /\ stream = <<>>
    /\ graph = <<>>
    /\ trace = <<>>

(***************************************************************************)
(* SpecSize: sizeof_tensor applied to one tensor.                          *)
(***************************************************************************)
InitSize ==
    /\ tensor \in Tensors(MaxDims)
    /\ resolved = Unresolved
    /\ MemIdle
    /\ MainIdle

ResolveSize ==
    /\ resolved = Unresolved
    /\ \E o \in sizeof_tensor(tensor) : resolved' = o
    /\ UNCHANGED <<tensor, memVars, mainVars>>

NextSize == ResolveSize

SpecSize == InitSize /\ [][NextSize]_vars

(***************************************************************************)
(* The sizes the specification asks for, computed exactly.                 *)
(***************************************************************************)
\* digits enough for the exact product of MAX_DIMS extents and a width
WideLen == 3 * MAX_DIMS + 1

RECURSIVE ExactProduct(_, _, _, _)
ExactProduct(d, nbDims, dim, acc) ==
    IF dim >= nbDims THEN acc
    ELSE ExactProduct(d, nbDims, dim + 1, MulSmall(acc, d[dim]))

\* (product of the extents d[0..nbDims-1]) * width, as WideLen digits
ExactSize(d, nbDims, width) ==
    MulSmall(ExactProduct(d, nbDims, 0, ToLimbs(1, WideLen)), width)

FitsSizeT(w) == \A k \in 9..Len(w) : w[k] = 0

AboveIntMax(w) == (\E k \in 5..Len(w) : w[k] # 0) \/ w[4] >= 128

RoundUp(e, g) == ((e + g - 1) \div g) * g

\* the linear-layout formula for the tensor
LinearSize(t) == ExactSize(t.d, t.nbDims, sizeof_dtype(t.dtype).value)

\* the vectorized formula: the extent at vecDim rounded up to the group size
PaddedSize(t) ==
    ExactSize([t.d EXCEPT ![t.vecDim] = RoundUp(@, t.cpe)], t.nbDims,
              sizeof_dtype(t.dtype).value)

Returned(w) == resolved.kind = "return" /\ resolved.size = SubSeq(w, 1, 8)

\* C5 (as claimed): a vectorized tensor whose packed extent is not a multiple
\* of the group size resolves to the product with that extent rounded up to
\* the next multiple, times the element width ([3, 7], index 1, group 4,
\* width 4 gives 96).
C5_PaddedToNextMultiple ==
    ( /\ resolved.kind \in {"return", "throw"}
      /\ tensor.format = "kVECTORIZED"
      /\ tensor.dtype \in KnownDTypes
      /\ tensor.d[tensor.vecDim] % tensor.cpe # 0
      /\ FitsSizeT(PaddedSize(tensor)) )
    => Returned(PaddedSize(tensor))

\* C6 (as claimed): a vectorized tensor whose packed extent is already a
\* multiple of the group size resolves to the linear-layout size.
C6_MultipleUnpadded ==
    ( /\ resolved.kind \in {"return", "throw"}
      /\ tensor.format = "kVECTORIZED"
      /\ tensor.dtype \in KnownDTypes
      /\ tensor.d[tensor.vecDim] % tensor.cpe = 0
      /\ FitsSizeT(LinearSize(tensor)) )
    => Returned(LinearSize(tensor))

\* C7 (as claimed): a linear tensor of a supported element type resolves to
\* exactly (product of the extents) * (element width) whenever that fits in
\* size_t, also above 2^31 - 1.
C7_LinearExact ==
    ( /\ resolved.kind \in {"return", "throw"}
      /\ tensor.format = "kLINEAR"
      /\ tensor.dtype \in KnownDTypes
      /\ FitsSizeT(LinearSize(tensor)) )
    => Returned(LinearSize(tensor))

\* the part of C7 the code does meet: sizes up to 2^31 - 1
C7_LinearExactBelowIntMax ==
    ( /\ resolved # Unresolved
      /\ tensor.format = "kLINEAR"
      /\ tensor.dtype \in KnownDTypes
      /\ ~AboveIntMax(LinearSize(tensor))
      /\ \A k \in 0..(tensor.nbDims - 1) : tensor.d[k] # 0 )
    => Returned(LinearSize(tensor))

\* what the code returns for the example of C5 (extents [3, 7], packed index 1,
\* group size 4, float32): 84
C5_ExampleIs84 ==
    ( /\ tensor.nbDims = 2 /\ tensor.d[0] = 3 /\ tensor.d[1] = 7
      /\ tensor.format = "kVECTORIZED" /\ tensor.vecDim = 1 /\ tensor.cpe = 4
      /\ tensor.dtype = "kFLOAT" /\ resolved # Unresolved )
    => resolved = [kind |-> "return", size |-> ToLimbs(84, 8)]

\* what the code does for a tensor of a format that is neither linear nor
\* vectorized (extents [3, 7], float32): it returns 84, or 12 when line 43 has
\* taken the last dimension off shape.nbDims, or the process ends at line 43
UnvectorizedExampleIs12Or84OrCrash ==
    ( /\ tensor.nbDims = 2 /\ tensor.d[0] = 3 /\ tensor.d[1] = 7
      /\ tensor.format = "kHWC" /\ tensor.dtype = "kFLOAT"
      /\ resolved # Unresolved )
    => \/ \E size \in {12, 84} :
             resolved = [kind |-> "return", size |-> ToLimbs(size, 8)]
       \/ resolved = [kind |-> "crash", size |-> NoSize]

UnvectorizedExampleResolved(size) ==
    /\ tensor.nbDims = 2 /\ tensor.d[0] = 3 /\ tensor.d[1] = 7
    /\ tensor.format = "kHWC" /\ tensor.dtype = "kFLOAT"
    /\ resolved = [kind |-> "return", size |-> ToLimbs(size, 8)]

UnvectorizedExampleIs12 == UnvectorizedExampleResolved(12)

UnvectorizedExampleIs84 == UnvectorizedExampleResolved(84)

UnvectorizedExampleCrashes ==
    /\ tensor.nbDims = 2 /\ tensor.d[0] = 3 /\ tensor.d[1] = 7
    /\ tensor.format = "kHWC" /\ tensor.dtype = "kFLOAT"
    /\ resolved = [kind |-> "crash", size |-> NoSize]

\* every tensor of such a format, with no dimension at all too, has the crash
\* at line 43 among its outcomes
UnvectorizedCanCrash ==
    \A t \in UnvectorizedTensors(2) :
        [kind |-> "crash", size |-> NoSize] \in sizeof_tensor(t)

(***************************************************************************)
(* SpecMem: HostMemory objects constructed, move-constructed, randomized   *)
(* and destroyed in any order the language allows (an object is built once *)
(* and destroyed once; only a live object is moved from or randomized).    *)
(***************************************************************************)
Objects == 1..MaxObjs

InitMem ==
    /\ SizeIdle
    /\ MainIdle
    /\ heap = EmptyHeap(MaxRegions)
    /\ objs = [o \in Objects |-> NoObject]
    /\ gen = 0
    /\ memStatus = MemOp("start", 0, "ok", nullptr)

\* the storage the next object is built in
NextObject(o) ==
    /\ objs[o].state = "none"
    /\ \A q \in Objects : q < o => objs[q].state # "none"

\* HostMemory buffer(size), lines 57-63, cudaMallocHost succeeding
Construct(o, size) ==
    /\ memStatus.result # "aborted"
    /\ NextObject(o)
    /\ \E r \in FreshRegions(heap) :
          /\ heap' = cudaMallocHost(heap, r, size)
          /\ objs' = [objs EXCEPT ![o] = [state |-> "live",
                                          m |-> HostMemory_ctor(size, r),
                                          movedFrom |-> FALSE]]
    /\ memStatus' = MemOp("construct", o, "ok", nullptr)
    /\ UNCHANGED <<gen, sizeVars, mainVars>>

\* lines 60-62: cudaMallocHost fails, std::bad_alloc leaves the constructor
\* and no object exists
ConstructFails(o, size) ==
    /\ memStatus.result # "aborted"
    /\ NextObject(o)
    /\ memStatus' = MemOp("construct", o, "bad_alloc", nullptr)
    /\ UNCHANGED <<heap, objs, gen, sizeVars, mainVars>>

\* HostMemory(std::move(src)), lines 75-80
MoveConstruct(o, src) ==
    /\ memStatus.result # "aborted"
    /\ NextObject(o)
    /\ objs[src].state = "live"
    /\ LET mv == HostMemory_move(objs[src].m)
       IN  objs' = [objs EXCEPT ![o]   = [state |-> "live", m |-> mv.self,
                                          movedFrom |-> FALSE],
                                ![src] = [@ EXCEPT !.m = mv.o,
                                                   !.movedFrom = TRUE]]
    /\ memStatus' = MemOp("move", o, "ok", nullptr)
    /\ UNCHANGED <<heap, gen, sizeVars, mainVars>>

\* ~HostMemory, lines 65-70: the region at ptr_ is passed to cudaFreeHost,
\* and a failure of cudaFreeHost is std::abort
Destroy(o) ==
    /\ memStatus.result # "aborted"
    /\ objs[o].state = "live"
    /\ heap' = cudaFreeHost(heap, objs[o].m.ptr_)
    /\ objs' = [objs EXCEPT ![o].state = "destroyed"]
    /\ \E freeOk \in BOOLEAN :
          memStatus' = [MemOp("destroy", o, HostMemory_dtor(freeOk).result,
                              objs[o].m.ptr_)
                          EXCEPT !.calls = HostMemory_dtor(freeOk).calls]
    /\ UNCHANGED <<gen, sizeVars, mainVars>>

\* m.randomize(re), lines 86-89
Randomize(o) ==
    /\ memStatus.result # "aborted"
    /\ objs[o].state = "live"
    /\ gen + randomize_words(objs[o].m) <= MaxDraws
    /\ heap' = randomize_heap(heap, objs[o].m, gen)
    /\ gen' = gen + randomize_words(objs[o].m)
    /\ memStatus' = MemOp("randomize", o, "ok", nullptr)
    /\ UNCHANGED <<objs, sizeVars, mainVars>>

NextMem ==
    \/ \E o \in Objects, size \in BufSizes : Construct(o, size)
    \/ \E o \in Objects, size \in BufSizes : ConstructFails(o, size)
    \/ \E o \in Objects, src \in Objects : MoveConstruct(o, src)
    \/ \E o \in Objects : Destroy(o)
    \/ \E o \in Objects : Randomize(o)

SpecMem == InitMem /\ [][NextMem]_vars

\* the bytes of a region randomize may write when the buffer has size S
WholeWordBytes(S) == RandWordSize * (S \div RandWordSize)

\* C9: randomize on a buffer of size S writes exactly floor(S / W) consecutive
\* words from offset 0: the last S mod W bytes and every byte past the region
\* (the sentinels) are never written, a live buffer's size is that of its
\* region, and right after randomize the whole words hold, in order, the
\* floor(S / W) words the engine has just produced; a buffer with S < W and a
\* moved-from buffer (null, size 0) get nothing written.
C9_RandomizeWritesWholeWordsOnly ==
    /\ \A r \in DOMAIN heap : \A k \in DOMAIN heap[r].data :
          k > WholeWordBytes(heap[r].size) => heap[r].data[k] = 0
    /\ \A o \in DOMAIN objs :
          (objs[o].state = "live" /\ objs[o].m.ptr_ # nullptr)
          => heap[objs[o].m.ptr_].size = objs[o].m.size_
    /\ \A o \in DOMAIN objs :
          (memStatus.op = "randomize" /\ memStatus.obj = o)
          => LET m == objs[o].m
             IN  IF m.ptr_ = nullptr THEN m.size_ = 0
                 ELSE \A k \in 1..WholeWordBytes(m.size_) :
                         heap[m.ptr_].data[k] =
                            gen - (m.size_ \div RandWordSize)
                                + ((k - 1) \div RandWordSize) + 1

\* C9's case: a buffer of 12 bytes has been randomized; its first word is
\* written and its last 4 bytes are not
C9_Witness ==
    /\ memStatus.op = "randomize"
    /\ \E o \in DOMAIN objs :
          /\ memStatus.obj = o
          /\ objs[o].m.size_ = 12
          /\ heap[objs[o].m.ptr_].data[RandWordSize] > 0
          /\ heap[objs[o].m.ptr_].data[RandWordSize + 1] = 0

\* C10: every allocated region is passed to cudaFreeHost at most once, and
\* exactly once when no HostMemory object is left alive; a moved-from object
\* holds nullptr and size 0, and its destructor passes nullptr to cudaFreeHost.
C10_FreedExactlyOnce ==
    /\ \A r \in DOMAIN heap : heap[r].frees <= 1
    /\ (\A o \in DOMAIN objs : objs[o].state # "live")
       => \A r \in DOMAIN heap :
             heap[r].state # "unallocated" => heap[r].frees = 1
    /\ \A o \in DOMAIN objs :
          /\ (objs[o].movedFrom /\ objs[o].state = "live")
             => objs[o].m = [ptr_ |-> nullptr, size_ |-> 0]
          /\ (objs[o].movedFrom /\ memStatus.op = "destroy" /\ memStatus.obj = o)
             => memStatus.freed = nullptr

\* C10's case: a buffer was constructed, moved from and both objects were
\* destroyed, the moved-from one last
C10_Witness ==
    /\ \A o \in DOMAIN objs : objs[o].state # "live"
    /\ \E r \in DOMAIN heap : heap[r].frees = 1
    /\ memStatus.op = "destroy"
    /\ memStatus.obj \in DOMAIN objs
    /\ objs[memStatus.obj].movedFrom

(***************************************************************************)
(* main, lines 213-293, as the sequence of its statements.  Each statement *)
(* names the unit whose context, buffers or graph it uses and the stream   *)
(* it is issued on (-1: none).                                             *)
(***************************************************************************)
Units == {0, 1}

Instr(op, unit, strm, line) ==
    [op |-> op, unit |-> unit, stream |-> strm, line |-> line]

\* lines 216-258
setup_steps ==
    << Instr("createInferRuntime", -1, -1, 216),
       Instr("open_plan", 0, -1, 224),
       Instr("open_plan", 1, -1, 227),
       Instr("load_plans", -1, -1, 231),
       Instr("deserializeCudaEngine", 0, -1, 235),
       Instr("deserializeCudaEngine", 1, -1, 239),
       Instr("createExecutionContext", 0, -1, 244),
       Instr("createExecutionContext", 1, -1, 248),
       Instr("set_io", 0, -1, 253),
       Instr("set_io", 1, -1, 254),
       Instr("Stream", 0, 0, 257),
       Instr("Stream", 1, 1, 258) >>

\* a warm-up that leaves out unit 1
warmup_steps_unit0_only ==
    << Instr("try_enqueue", 0, 0, 261),
       Instr("synchronize", 0, 0, 262) >>

\* lines 260-265, "test enqueue"
warmup_steps ==
    << Instr("try_enqueue", 0, 0, 261),
       Instr("synchronize", 0, 0, 262),
       Instr("try_enqueue", 1, 1, 264),
       Instr("synchronize", 1, 1, 265) >>

\* a capture that synchronizes the stream before ending the capture
capture_steps_sync_in_capture ==
    << Instr("begin_capture", 0, 0, 268),
       Instr("try_enqueue", 0, 0, 269),
       Instr("synchronize", 0, 0, 272),
       Instr("Graph", 0, 0, 270),
       Instr("GraphExec", 0, -1, 271),
       Instr("begin_capture", 1, 1, 274),
       Instr("try_enqueue", 1, 1, 275),
       Instr("synchronize", 1, 1, 278),
       Instr("Graph", 1, 1, 276),
       Instr("GraphExec", 1, -1, 277) >>

\* lines 267-278, "capture graphs"
capture_steps ==
    << Instr("begin_capture", 0, 0, 268),
       Instr("try_enqueue", 0, 0, 269),
       Instr("Graph", 0, 0, 270),
       Instr("GraphExec", 0, -1, 271),
       Instr("synchronize", 0, 0, 272),
       Instr("begin_capture", 1, 1, 274),
       Instr("try_enqueue", 1, 1, 275),
       Instr("Graph", 1, 1, 276),
       Instr("GraphExec", 1, -1, 277),
       Instr("synchronize", 1, 1, 278) >>

\* a loop body that leaves the buffers of unit 1 as they are
loop_steps_randomize_unit0_only ==
    << Instr("report", -1, -1, 283),
       Instr("randomize", 0, -1, 284),
       Instr("launch", 0, 0, 286),
       Instr("launch", 1, 1, 287),
       Instr("synchronize", 0, 0, 288),
       Instr("synchronize", 1, 1, 289),
       Instr("loop_back", -1, -1, 290) >>

\* a loop body that launches the graph of unit 0 on the stream of unit 1
loop_steps_cross_launch ==
    << Instr("report", -1, -1, 283),
       Instr("randomize", 0, -1, 284),
       Instr("randomize", 1, -1, 285),
       Instr("launch", 0, 1, 286),
       Instr("launch", 1, 1, 287),
       Instr("synchronize", 0, 0, 288),
       Instr("synchronize", 1, 1, 289),
       Instr("loop_back", -1, -1, 290) >>

\* a loop body that randomizes the buffers after the launches
loop_steps_randomize_after_launch ==
    << Instr("report", -1, -1, 283),
       Instr("launch", 0, 0, 286),
       Instr("launch", 1, 1, 287),
       Instr("randomize", 0, -1, 284),
       Instr("randomize", 1, -1, 285),
       Instr("synchronize", 0, 0, 288),
       Instr("synchronize", 1, 1, 289),
       Instr("loop_back", -1, -1, 290) >>

\* a loop body that waits for unit 0 before launching unit 1
loop_steps_sync_between ==
    << Instr("report", -1, -1, 283),
       Instr("randomize", 0, -1, 284),
       Instr("randomize", 1, -1, 285),
       Instr("launch", 0, 0, 286),
       Instr("synchronize", 0, 0, 288),
       Instr("launch", 1, 1, 287),
       Instr("synchronize", 1, 1, 289),
       Instr("loop_back", -1, -1, 290) >>

\* lines 283-290, the body of the for loop and its i++
loop_steps ==
    << Instr("report", -1, -1, 283),
       Instr("randomize", 0, -1, 284),
       Instr("randomize", 1, -1, 285),
       Instr("launch", 0, 0, 286),
       Instr("launch", 1, 1, 287),
       Instr("synchronize", 0, 0, 288),
       Instr("synchronize", 1, 1, 289),
       Instr("loop_back", -1, -1, 290) >>

main_program ==
    setup_steps \o warmup_steps \o capture_steps
      \o << Instr("for_init", -1, -1, 282) >>
      \o loop_steps
      \o << Instr("return", -1, -1, 292) >>

\* the index of the first statement of the loop body
LoopStart == Len(setup_steps) + Len(warmup_steps) + Len(capture_steps) + 2

Cur == main_program[pc]

Running(op) ==
    /\ status = "running"
    /\ pc \in DOMAIN main_program
    /\ Cur.op = op

\* a call on the runtime as the trace records it
Event(op, unit, strm, ok, arg) ==
    [op |-> op, unit |-> unit, stream |-> strm, ok |-> ok, arg |-> arg]

(***************************************************************************)
(* The tensors the engines of Spec report: a linear float32 tensor of      *)
(* 3 elements (12 bytes) and one whose element type is outside the table.  *)
(***************************************************************************)
MainTensors ==
    { [nbDims |-> 1, d |-> DimsOf(1, [k \in {0} |-> 3]), dtype |-> ty,
       format |-> "kLINEAR", vecDim |-> -1, cpe |-> 1] : ty \in {"kFLOAT", "kOTHER"} }

\* line 113, auto size = sizeof_tensor(context, name): the outcomes for each
\* tensor of MainTensors
sizeof_main_tensor == [t \in MainTensors |-> sizeof_tensor(t)]

\* nvinfer1::TensorIOMode
IOModes == {"kNONE", "kINPUT", "kOUTPUT"}

\* the number a size_t stands for (the sizes of Spec are below 2^31)
SizeTToNat(a) == FromLimbs32(SubSeq(a, 1, 4))

\* struct IOBuffers, lines 96-104, with the capacity of each vector
EmptyIOBuffers ==
    [inputs |-> <<>>, outputs |-> <<>>, inputs_cap |-> 0, outputs_cap |-> 0]

NoStream == [created |-> FALSE, capturing |-> FALSE, outstanding |-> 0,
             captured |-> 0]

NoGraph == [captured |-> FALSE, nodes |-> 0, exec |-> FALSE]

Init ==
    /\ SizeIdle
    /\ objs = <<>>
    /\ memStatus = MemOp("idle", 0, "ok", nullptr)
    /\ heap = EmptyHeap(MaxIO)
    /\ gen = 0
    /\ pc = 1
    /\ status = "running"
    /\ iter = 0
    /\ numIO \in { n \in [Units -> 0..MaxIO] : n[0] + n[1] <= MaxIO }
    /\ io = [u \in Units |-> <<>>]
    /\ buffers = [u \in Units |-> EmptyIOBuffers]
    /\ bound = [u \in Units |-> <<>>]
    /\ stream = [u \in Units |-> NoStream]
    /\ graph = [u \in Units |-> NoGraph]
    /\ trace = <<>>

\* An exception that leaves main has no handler: std::terminate ends the
\* process, and the build (g++, Itanium ABI) does not unwind the stack first,
\* so no destructor runs.
Terminated == "terminated"

\* lines 216-250: a call that main checks, throwing when it failed
SetupOps ==
    {"createInferRuntime", "open_plan", "deserializeCudaEngine",
     "createExecutionContext"}

SetupCall ==
    /\ status = "running"
    /\ pc \in DOMAIN main_program
    /\ Cur.op \in SetupOps
    /\ \E ok \in BOOLEAN :
          /\ trace' = Append(trace, Event(Cur.op, Cur.unit, -1, ok, 0))
          /\ pc' = IF ok THEN pc + 1 ELSE pc
          /\ status' = IF ok THEN "running" ELSE Terminated
    /\ UNCHANGED <<iter, numIO, io, buffers, bound, stream, graph,
                   heap, gen, objs, memStatus, sizeVars>>

\* lines 231-232: the plan files are read into vectors
LoadPlans ==
    /\ Running("load_plans")
    /\ pc' = pc + 1
    /\ UNCHANGED <<status, iter, numIO, io, buffers, bound, stream, graph, trace,
                   heap, gen, objs, memStatus, sizeVars>>

(***************************************************************************)
(* set_io, lines 106-130: one action per pass of its loop.                 *)
(***************************************************************************)
\* a push_back that puts the new element in front of the others
push_back_in_front(v, cap, x) ==
    LET mv == HostMemory_move(x)
    IN  IF Len(v) < cap
        THEN [vec |-> << mv.self >> \o v, cap |-> cap,
              destroyed |-> <<>>, from |-> mv.o]
        ELSE LET moved == [j \in 1..Len(v) |-> HostMemory_move(v[j])]
             IN  [vec |-> << mv.self >> \o [j \in 1..Len(v) |-> moved[j].self],
                  cap |-> IF cap = 0 THEN 1 ELSE 2 * cap,
                  destroyed |-> [j \in 1..Len(v) |-> moved[j].o],
                  from |-> mv.o]

\* std::vector<HostMemory>::push_back(std::move(x)), lines 119 and 123: the
\* vector, its capacity, the objects left behind in the old storage when the
\* vector grew (they are destroyed), and what is left of x.  HostMemory's move
\* constructor is noexcept, so growth moves the elements.
push_back(v, cap, x) ==
    LET mv == HostMemory_move(x)
    IN  IF Len(v) < cap
        THEN [vec |-> Append(v, mv.self), cap |-> cap,
              destroyed |-> <<>>, from |-> mv.o]
        ELSE LET moved == [j \in 1..Len(v) |-> HostMemory_move(v[j])]
             IN  [vec |-> Append([j \in 1..Len(v) |-> moved[j].self], mv.self),
                  cap |-> IF cap = 0 THEN 1 ELSE 2 * cap,
                  destroyed |-> [j \in 1..Len(v) |-> moved[j].o],
                  from |-> mv.o]

RECURSIVE free_all(_, _)
\* the destructors of the objects ms, in order, each cudaFreeHost succeeding
free_all(h, ms) ==
    IF ms = <<>> THEN h ELSE free_all(cudaFreeHost(h, Head(ms).ptr_), Tail(ms))

\* the loop of line 110 has a tensor left to visit
SetIoAt(u) ==
    /\ Running("set_io")
    /\ u = Cur.unit
    /\ Len(io[u]) < numIO[u]

\* line 113: sizeof_tensor throws (or the process crashes in it); nothing is
\* allocated or bound
SetIoSizeFails ==
    \E u \in Units, t \in MainTensors, mode \in IOModes :
       /\ SetIoAt(u)
       /\ \E o \in sizeof_main_tensor[t] :
             /\ o.kind # "return"
             /\ status' = IF o.kind = "throw" THEN Terminated ELSE "crashed"
       /\ io' = [io EXCEPT ![u] = Append(@, [tensor |-> t, mode |-> mode])]
       /\ UNCHANGED <<pc, iter, numIO, buffers, bound, stream, graph, trace,
                      heap, gen, objs, memStatus, sizeVars>>

\* line 114: cudaMallocHost fails and the constructor throws std::bad_alloc
SetIoAllocFails ==
    \E u \in Units, t \in MainTensors, mode \in IOModes :
       /\ SetIoAt(u)
       /\ \E o \in sizeof_main_tensor[t] :
             /\ o.kind = "return"
             /\ trace' = Append(trace, Event("cudaMallocHost", u, -1, FALSE,
                                             SizeTToNat(o.size)))
       /\ status' = Terminated
       /\ io' = [io EXCEPT ![u] = Append(@, [tensor |-> t, mode |-> mode])]
       /\ UNCHANGED <<pc, iter, numIO, buffers, bound, stream, graph,
                      heap, gen, objs, memStatus, sizeVars>>

\* line 125: the mode is neither kINPUT nor kOUTPUT, std::abort() with the
\* buffer allocated
SetIoBadMode ==
    \E u \in Units, t \in MainTensors, mode \in IOModes \ {"kINPUT", "kOUTPUT"} :
       /\ SetIoAt(u)
       /\ \E o \in sizeof_main_tensor[t], r \in FreshRegions(heap) :
             /\ o.kind = "return"
             /\ heap' = cudaMallocHost(heap, r, SizeTToNat(o.size))
             /\ trace' = Append(trace, Event("cudaMallocHost", u, -1, TRUE,
                                             SizeTToNat(o.size)))
       /\ status' = "aborted"
       /\ io' = [io EXCEPT ![u] = Append(@, [tensor |-> t, mode |-> mode])]
       /\ UNCHANGED <<pc, iter, numIO, buffers, bound, stream, graph,
                      gen, objs, memStatus, sizeVars>>

\* the events of the destructors of ms, of which the first k cudaFreeHost
\* calls succeed; the call after them fails and aborts, the rest never run
free_events(u, ms, k) ==
    [j \in 1..(IF k < Len(ms) THEN k + 1 ELSE Len(ms)) |->
        Event("cudaFreeHost", u, -1, j <= k, ms[j].ptr_)]

\* lines 111-124 for an input or an output tensor: the buffer is allocated,
\* its address bound (the result of the bind call is not looked at), the
\* buffer moved into the vector, and the moved-from objects destroyed
SetIoTensor ==
    \E u \in Units, t \in MainTensors, mode \in {"kINPUT", "kOUTPUT"} :
       /\ SetIoAt(u)
       /\ \E o \in sizeof_main_tensor[t], r \in FreshRegions(heap), bindOk \in BOOLEAN :
             /\ o.kind = "return"
             /\ LET size   == SizeTToNat(o.size)
                    buffer == HostMemory_ctor(size, r)
                    isIn   == mode = "kINPUT"
                    pb     == IF isIn
                              THEN push_back(buffers[u].inputs,
                                             buffers[u].inputs_cap, buffer)
                              ELSE push_back(buffers[u].outputs,
                                             buffers[u].outputs_cap, buffer)
                    dtors  == pb.destroyed \o << pb.from >>
                IN  \E k \in 0..Len(dtors) :
                       /\ heap' = free_all(cudaMallocHost(heap, r, size),
                                           SubSeq(dtors, 1,
                                                  IF k < Len(dtors) THEN k + 1
                                                  ELSE Len(dtors)))
                       /\ bound' = [bound EXCEPT ![u] =
                                      Append(@, IF bindOk
                                                THEN HostMemory_data(buffer)
                                                ELSE nullptr)]
                       /\ buffers' = [buffers EXCEPT ![u] =
                                        IF isIn
                                        THEN [@ EXCEPT !.inputs = pb.vec,
                                                       !.inputs_cap = pb.cap]
                                        ELSE [@ EXCEPT !.outputs = pb.vec,
                                                       !.outputs_cap = pb.cap]]
                       /\ trace' = trace
                            \o << Event("cudaMallocHost", u, -1, TRUE, size),
                                  Event(IF isIn THEN "setInputTensorAddress"
                                        ELSE "setTensorAddress", u, -1, bindOk,
                                        HostMemory_data(buffer)) >>
                            \o free_events(u, dtors, k)
                       /\ status' = IF k < Len(dtors) THEN "aborted" ELSE "running"
       /\ io' = [io EXCEPT ![u] = Append(@, [tensor |-> t, mode |-> mode])]
       /\ UNCHANGED <<pc, iter, numIO, stream, graph, gen, objs, memStatus,
                      sizeVars>>

\* line 129: return buffers
SetIoReturn ==
    /\ Running("set_io")
    /\ Len(io[Cur.unit]) = numIO[Cur.unit]
    /\ pc' = pc + 1
    /\ UNCHANGED <<status, iter, numIO, io, buffers, bound, stream, graph, trace,
                   heap, gen, objs, memStatus, sizeVars>>

(***************************************************************************)
(* Stream, Graph, GraphExec and try_enqueue, lines 132-210.  A call on the *)
(* runtime may fail at any time; it can succeed only when the capture      *)
(* protocol allows it (no synchronize of a capturing stream, end-capture   *)
(* only of a capturing stream, instantiate only of a captured graph).      *)
(***************************************************************************)
\* a call whose failure is not turned into an exception: main carries on
Called_carries_on(op, ok, arg) ==
    /\ trace' = Append(trace, Event(op, Cur.unit, Cur.stream, ok, arg))
    /\ pc' = pc + 1
    /\ status' = "running"

\* the step of a call that throws when it fails: the event, then the next
\* statement or std::terminate
Called(op, ok, arg) ==
    /\ trace' = Append(trace, Event(op, Cur.unit, Cur.stream, ok, arg))
    /\ pc' = IF ok THEN pc + 1 ELSE pc
    /\ status' = IF ok THEN "running" ELSE Terminated

\* a synchronize that carries on whatever cudaStreamSynchronize returned
Stream_synchronize_ignores_error(ok) == FALSE

\* lines 151-153: whether Stream::synchronize throws
Stream_synchronize_throws(ok) == ~ok

\* lines 134-139, Stream::Stream
StreamCreate ==
    /\ Running("Stream")
    /\ \E ok \in BOOLEAN :
          /\ Called("cudaStreamCreate", ok, 0)
          /\ stream' = IF ok
                       THEN [stream EXCEPT ![Cur.stream] =
                               [created |-> TRUE, capturing |-> FALSE,
                                outstanding |-> 0, captured |-> 0]]
                       ELSE stream
    /\ UNCHANGED <<iter, numIO, io, buffers, bound, graph,
                   heap, gen, objs, memStatus, sizeVars>>

\* lines 206-210, try_enqueue(context, stream): enqueueV3 records into the
\* graph of a capturing stream and submits the execution otherwise
try_enqueue ==
    /\ Running("try_enqueue")
    /\ \E ok \in BOOLEAN :
          /\ Called("enqueueV3", ok, 0)
          /\ stream' = IF ~ok THEN stream
                       ELSE IF stream[Cur.stream].capturing
                       THEN [stream EXCEPT ![Cur.stream].captured = @ + 1]
                       ELSE [stream EXCEPT ![Cur.stream].outstanding = @ + 1]
    /\ UNCHANGED <<iter, numIO, io, buffers, bound, graph,
                   heap, gen, objs, memStatus, sizeVars>>

\* lines 150-154, Stream::synchronize: returns when all work submitted on the
\* stream has completed, throws when cudaStreamSynchronize fails
synchronize ==
    /\ Running("synchronize")
    /\ \E ok \in BOOLEAN :
          /\ ok => ~stream[Cur.stream].capturing
          /\ trace' = Append(trace, Event("cudaStreamSynchronize", Cur.unit,
                                          Cur.stream, ok, 0))
          /\ pc' = IF Stream_synchronize_throws(ok) THEN pc ELSE pc + 1
          /\ status' = IF Stream_synchronize_throws(ok) THEN Terminated
                        ELSE "running"
          /\ stream' = IF ok THEN [stream EXCEPT ![Cur.stream].outstanding = 0]
                       ELSE stream
    /\ UNCHANGED <<iter, numIO, io, buffers, bound, graph,
                   heap, gen, objs, memStatus, sizeVars>>

\* lines 156-160, Stream::begin_capture
begin_capture ==
    /\ Running("begin_capture")
    /\ \E ok \in BOOLEAN :
          /\ ok => ~stream[Cur.stream].capturing
          /\ Called("cudaStreamBeginCapture", ok, 0)
          /\ stream' = IF ok THEN [stream EXCEPT ![Cur.stream].capturing = TRUE,
                                                 ![Cur.stream].captured = 0]
                       ELSE stream
    /\ UNCHANGED <<iter, numIO, io, buffers, bound, graph,
                   heap, gen, objs, memStatus, sizeVars>>

\* lines 172-176, Graph::Graph(Stream &): cudaStreamEndCapture
Graph_ctor ==
    /\ Running("Graph")
    /\ \E ok \in BOOLEAN :
          /\ ok => stream[Cur.stream].capturing
          /\ Called("cudaStreamEndCapture", ok, 0)
          /\ stream' = IF ok THEN [stream EXCEPT ![Cur.stream].capturing = FALSE]
                       ELSE stream
          /\ graph' = IF ok
                      THEN [graph EXCEPT ![Cur.unit].captured = TRUE,
                                         ![Cur.unit].nodes =
                                            stream[Cur.stream].captured]
                      ELSE graph
    /\ UNCHANGED <<iter, numIO, io, buffers, bound,
                   heap, gen, objs, memStatus, sizeVars>>

\* lines 189-194, GraphExec::GraphExec(Graph &): cudaGraphInstantiate
GraphExec_ctor ==
    /\ Running("GraphExec")
    /\ \E ok \in BOOLEAN :
          /\ ok => graph[Cur.unit].captured
          /\ Called("cudaGraphInstantiate", ok, 0)
          /\ graph' = IF ok THEN [graph EXCEPT ![Cur.unit].exec = TRUE] ELSE graph
    /\ UNCHANGED <<iter, numIO, io, buffers, bound, stream,
                   heap, gen, objs, memStatus, sizeVars>>

\* lines 196-200, GraphExec::launch(Stream &): cudaGraphLaunch submits the
\* recorded executions on the stream and returns
launch ==
    /\ Running("launch")
    /\ \E ok \in BOOLEAN :
          /\ ok => graph[Cur.unit].exec
          /\ Called("cudaGraphLaunch", ok, Cur.unit)
          /\ stream' = IF ok THEN [stream EXCEPT ![Cur.stream].outstanding = @ + 1]
                       ELSE stream
    /\ UNCHANGED <<iter, numIO, io, buffers, bound, graph,
                   heap, gen, objs, memStatus, sizeVars>>

(***************************************************************************)
(* The steady-state loop, lines 280-290.                                   *)
(***************************************************************************)
\* a loop counter that starts at 1
for_init_from_one ==
    /\ Running("for_init")
    /\ pc' = pc + 1
    /\ iter' = 1
    /\ UNCHANGED <<status, numIO, io, buffers, bound, stream, graph, trace,
                   heap, gen, objs, memStatus, sizeVars>>

\* lines 281-282: std::default_random_engine re; uint64_t i = 0
for_init ==
    /\ Running("for_init")
    /\ pc' = pc + 1
    /\ iter' = 0
    /\ UNCHANGED <<status, numIO, io, buffers, bound, stream, graph, trace,
                   heap, gen, objs, memStatus, sizeVars>>

\* line 283: std::cout << "\r" << i << std::flush
report ==
    /\ Running("report")
    /\ trace' = Append(trace, Event("report", -1, -1, TRUE, iter))
    /\ pc' = pc + 1
    /\ UNCHANGED <<status, iter, numIO, io, buffers, bound, stream, graph,
                   heap, gen, objs, memStatus, sizeVars>>

RECURSIVE randomize_all(_, _, _)
\* lines 100-103, IOBuffers::randomize over the buffers ms with one engine
randomize_all(h, ms, g) ==
    IF ms = <<>> THEN [heap |-> h, gen |-> g]
    ELSE randomize_all(randomize_heap(h, Head(ms), g), Tail(ms),
                       g + randomize_words(Head(ms)))

\* lines 284-285, buffers.randomize(re): the inputs, then the outputs
IOBuffers_randomize ==
    /\ Running("randomize")
    /\ LET b == buffers[Cur.unit]
           r == randomize_all(heap, b.inputs \o b.outputs, gen)
       IN  /\ heap' = r.heap
           /\ gen' = r.gen
    /\ trace' = Append(trace, Event("randomize", Cur.unit, -1, TRUE, 0))
    /\ pc' = pc + 1
    /\ UNCHANGED <<status, iter, numIO, io, buffers, bound, stream, graph,
                   objs, memStatus, sizeVars>>

\* a for statement whose condition does not hold after the first pass
loop_condition_single_pass == FALSE

\* line 282, the condition of the for statement
loop_condition == TRUE

\* line 282: i++, then the condition: back to the head of the body, or on to
\* return 0 (line 292).  Spec follows MaxIter iterations.
loop_back ==
    /\ Running("loop_back")
    /\ iter + 1 < MaxIter
    /\ iter' = iter + 1
    /\ IF loop_condition
       THEN pc' = LoopStart /\ status' = status
       ELSE pc' = pc + 1 /\ status' = "returned"
    /\ UNCHANGED <<numIO, io, buffers, bound, stream, graph, trace,
                   heap, gen, objs, memStatus, sizeVars>>

Next ==
    \/ SetupCall
    \/ LoadPlans
    \/ SetIoSizeFails
    \/ SetIoAllocFails
    \/ SetIoBadMode
    \/ SetIoTensor
    \/ SetIoReturn
    \/ StreamCreate
    \/ try_enqueue
    \/ synchronize
    \/ begin_capture
    \/ Graph_ctor
    \/ GraphExec_ctor
    \/ launch
    \/ for_init
    \/ report
    \/ IOBuffers_randomize
    \/ loop_back

Spec == Init /\ [][Next]_vars

\* main is one thread running its statements in order: a statement it has
\* reached is executed (each call it makes returns, synchronize included).
SpecLive == Spec /\ WF_vars(Next)

(***************************************************************************)
(* Reading the trace.                                                      *)
(***************************************************************************)
Positions == DOMAIN trace

IsOp(p, op) == trace[p].op = op

\* the position of the report of iteration n, or 0
ReportAt(n) ==
    IF \E p \in Positions : IsOp(p, "report") /\ trace[p].arg = n
    THEN CHOOSE p \in Positions : IsOp(p, "report") /\ trace[p].arg = n
    ELSE 0

\* the position of the first report after position r, or Len(trace) + 1
NextReportAfter(r) ==
    LET later == { q \in Positions : IsOp(q, "report") /\ q > r }
    IN  IF later = {} THEN Len(trace) + 1
        ELSE CHOOSE q \in later : \A x \in later : q <= x

\* the positions of the calls of loop iteration n: after its report and before
\* the next report
InIteration(n) ==
    LET r   == ReportAt(n)
        nxt == NextReportAfter(r)
    IN  IF r = 0 THEN {} ELSE { p \in Positions : r < p /\ p < nxt }

Iterations == { trace[p].arg : p \in { q \in Positions : IsOp(q, "report") } }

LaunchAt(p, u) == IsOp(p, "cudaGraphLaunch") /\ trace[p].arg = u /\ trace[p].stream = u

SyncAt(p, s) == IsOp(p, "cudaStreamSynchronize") /\ trace[p].stream = s

\* C1: in every loop iteration, every synchronize comes after the launch of
\* unit 0's graph and, after it, the launch of unit 1's graph, each launched
\* once on its own stream (so no synchronize lies before or between the two
\* launches); stream 0 is synchronized before stream 1, each at most once.
C1_LaunchBothBeforeSync ==
    \A n \in Iterations :
       LET it == InIteration(n)
       IN  /\ \A p \in it : (\E s \in Units : SyncAt(p, s)) =>
                \E a, b \in it : /\ a < b /\ b < p
                                 /\ LaunchAt(a, 0) /\ LaunchAt(b, 1)
           /\ \A p \in it : IsOp(p, "cudaGraphLaunch") =>
                /\ LaunchAt(p, 0) \/ LaunchAt(p, 1)
                /\ \A q \in it : (IsOp(q, "cudaGraphLaunch") /\ q < p) =>
                      (LaunchAt(q, 0) /\ LaunchAt(p, 1))
           /\ \A p \in it : SyncAt(p, 1) =>
                \E q \in it : q < p /\ SyncAt(q, 0) /\ trace[q].ok
           /\ \A p, q \in it : \A s \in Units :
                (SyncAt(p, s) /\ SyncAt(q, s)) => p = q

\* C1's case: the second iteration has launched both graphs and synchronized
\* both streams
C1_Witness ==
    /\ 1 \in Iterations
    /\ \E p \in InIteration(1) : SyncAt(p, 1) /\ trace[p].ok

\* C2: a synchronize that fails in the loop is the last call the process makes
\* (no randomize, launch, synchronize or report follows, for either unit), and
\* the process has ended abnormally at it.
C2_SyncFailureEndsProcess ==
    \A n \in Iterations : \A p \in InIteration(n) :
       ((\E s \in Units : SyncAt(p, s)) /\ ~trace[p].ok)
       => /\ p = Len(trace)
          /\ status = Terminated
          /\ Cur.op = "synchronize"
          /\ Cur.stream = trace[p].stream

\* C2's case: the synchronize of stream 0 has failed in the second iteration
C2_Witness ==
    /\ 1 \in Iterations
    /\ \E p \in InIteration(1) : SyncAt(p, 0) /\ ~trace[p].ok

\* the positions before p of the calls issued on stream s
OnStreamBefore(s, p) == { q \in Positions : q < p /\ trace[q].stream = s }

\* C3: when capture is begun on a unit's stream, the calls issued on that
\* stream since its creation are exactly one execution (enqueueV3 returned
\* true) and, after it, one synchronize that returned successfully.
C3_WarmupBeforeCapture ==
    \A s \in Units : \A p \in Positions :
       (IsOp(p, "cudaStreamBeginCapture") /\ trace[p].stream = s)
       => \E c, e, y \in OnStreamBefore(s, p) :
             /\ c < e /\ e < y
             /\ IsOp(c, "cudaStreamCreate") /\ trace[c].ok
             /\ IsOp(e, "enqueueV3") /\ trace[e].ok /\ trace[e].unit = s
             /\ SyncAt(y, s) /\ trace[y].ok
             /\ OnStreamBefore(s, p) = {c, e, y}

\* C3's case: capture has begun on stream 1
C3_Witness ==
    \E p \in Positions :
       IsOp(p, "cudaStreamBeginCapture") /\ trace[p].stream = 1 /\ trace[p].ok

\* the first end-capture on stream s after position p, or Len(trace) + 1
EndCaptureAfter(s, p) ==
    LET ends == { q \in Positions :
                    q > p /\ IsOp(q, "cudaStreamEndCapture") /\ trace[q].stream = s }
    IN  IF ends = {} THEN Len(trace) + 1
        ELSE CHOOSE q \in ends : \A x \in ends : q <= x

\* C4: between a begin-capture and the end-capture on the same stream the only
\* call on that stream is one enqueue (exactly one successful enqueue once the
\* capture has been ended), so no synchronize; and a graph is instantiated
\* only after the end-capture of its unit succeeded.
C4_CaptureProtocol ==
    /\ \A s \in Units : \A p \in Positions :
          (IsOp(p, "cudaStreamBeginCapture") /\ trace[p].stream = s /\ trace[p].ok)
          => LET q == EndCaptureAfter(s, p)
                 between == { x \in Positions :
                                p < x /\ x < q /\ trace[x].stream = s }
             IN  /\ \A x \in between : IsOp(x, "enqueueV3") /\ trace[x].unit = s
                 /\ Cardinality(between) <= 1
                 /\ q \in Positions =>
                       Cardinality({ x \in between : trace[x].ok }) = 1
    /\ \A x \in Positions :
          IsOp(x, "cudaGraphInstantiate")
          => \E q \in Positions :
                /\ q < x
                /\ IsOp(q, "cudaStreamEndCapture")
                /\ trace[q].unit = trace[x].unit
                /\ trace[q].ok

\* C4's case: unit 1's capture was ended, its graph instantiated and its
\* stream synchronized
C4_Witness ==
    \E q, x, y \in Positions :
       /\ q < x /\ x < y
       /\ IsOp(q, "cudaStreamEndCapture") /\ trace[q].stream = 1 /\ trace[q].ok
       /\ IsOp(x, "cudaGraphInstantiate") /\ trace[x].unit = 1 /\ trace[x].ok
       /\ SyncAt(y, 1) /\ trace[y].ok

\* the buffers set_io holds for unit u
BuffersOf(u) == buffers[u].inputs \o buffers[u].outputs

\* the calls of op made for unit u
CallsOf(u, op) == { p \in Positions : IsOp(p, op) /\ trace[p].unit = u }

\* C8: for a tensor whose element type is outside the table, size resolution
\* ends in the thrown error and in no size: set_io has allocated and bound
\* nothing for that tensor (only for the tensors before it), the process has
\* ended there and setup has not gone on.
C8_UnknownDTypeFails ==
    \A u \in Units : \A idx \in DOMAIN io[u] :
       io[u][idx].tensor.dtype \notin KnownDTypes
       => /\ \A o \in sizeof_tensor(io[u][idx].tensor) : o.kind # "return"
          /\ idx = Len(io[u])
          /\ status = Terminated
          /\ Cur.op = "set_io" /\ Cur.unit = u
          /\ Len(BuffersOf(u)) = idx - 1
          /\ Len(bound[u]) = idx - 1
          /\ Cardinality(CallsOf(u, "cudaMallocHost")) = idx - 1

\* C8's case: the second tensor of a unit has an unknown element type, after a
\* first tensor that was allocated and bound
C8_Witness ==
    \E u \in Units :
       /\ Len(io[u]) = 2
       /\ io[u][2].tensor.dtype = "kOTHER"
       /\ Len(BuffersOf(u)) = 1

(***************************************************************************)
(* The address table of a unit's context against the buffers it holds.     *)
(***************************************************************************)
\* the statement of main that calls set_io for unit u
SetIoStep(u) ==
    CHOOSE p \in DOMAIN main_program :
       main_program[p].op = "set_io" /\ main_program[p].unit = u

\* set_io has returned for unit u
SetIoDone(u) == pc > SetIoStep(u)

\* the buffers of unit u that hold address a
HoldersOf(u, a) ==
    { j \in DOMAIN BuffersOf(u) : BuffersOf(u)[j].ptr_ = a }

\* address a is that of exactly one buffer of unit u, the region is allocated
\* and not freed, and the buffer's size is the size the region was allocated
\* with
LiveBufferOf(u, a) ==
    /\ a # nullptr
    /\ Cardinality(HoldersOf(u, a)) = 1
    /\ heap[a].state = "allocated"
    /\ heap[a].frees = 0
    /\ \A j \in HoldersOf(u, a) : BuffersOf(u)[j].size_ = heap[a].size

BindOps == {"setInputTensorAddress", "setTensorAddress"}

\* C11 (as claimed): once set_io has returned for a unit, the context holds
\* an address for each of its I/O tensors, and that address is the address of
\* exactly one live buffer of the unit's IOBuffers, whose address and size are
\* those of its construction.
C11_BoundIsLiveBuffer ==
    \A u \in Units :
       SetIoDone(u)
       => /\ Len(bound[u]) = numIO[u]
          /\ \A idx \in DOMAIN bound[u] : LiveBufferOf(u, bound[u][idx])

\* What holds instead: the address handed to every bind call is that of one
\* live buffer of the unit, constructed with that address and size and moved
\* into the vector unchanged, and the context holds it when the bind call
\* reported success (otherwise it holds none).
C11_BoundWhereBindSucceeded ==
    \A u \in Units :
       SetIoDone(u)
       => /\ Len(bound[u]) = numIO[u]
          /\ Len(BuffersOf(u)) = numIO[u]
          /\ \A idx \in DOMAIN bound[u] :
                bound[u][idx] # nullptr => LiveBufferOf(u, bound[u][idx])
          /\ \A p \in Positions :
                (trace[p].op \in BindOps /\ trace[p].unit = u)
                => /\ LiveBufferOf(u, trace[p].arg)
                   /\ trace[p].ok => trace[p].arg \in { bound[u][i] : i \in DOMAIN bound[u] }

\* a unit with two tensors has reached the loop with both addresses bound
C11_BoundReached ==
    \E u \in Units :
       /\ numIO[u] = 2
       /\ \A idx \in DOMAIN bound[u] : bound[u][idx] # nullptr
       /\ 1 \in Iterations

(***************************************************************************)
(* Failures during setup.                                                  *)
(***************************************************************************)
\* the calls whose failure main, a constructor or a wrapper throws on
CheckedOps ==
    {"createInferRuntime", "open_plan", "deserializeCudaEngine",
     "createExecutionContext", "cudaMallocHost", "cudaStreamCreate",
     "enqueueV3", "cudaStreamSynchronize", "cudaStreamBeginCapture",
     "cudaStreamEndCapture", "cudaGraphInstantiate", "cudaGraphLaunch"}

\* the statement of main that makes the call op
StatementOf(op) ==
    CASE op = "cudaMallocHost"         -> "set_io"
      [] op = "cudaStreamCreate"       -> "Stream"
      [] op = "enqueueV3"              -> "try_enqueue"
      [] op = "cudaStreamSynchronize"  -> "synchronize"
      [] op = "cudaStreamBeginCapture" -> "begin_capture"
      [] op = "cudaStreamEndCapture"   -> "Graph"
      [] op = "cudaGraphInstantiate"   -> "GraphExec"
      [] op = "cudaGraphLaunch"        -> "launch"
      [] OTHER                         -> op

\* the statements of main before the loop
SetupSteps == 1..(LoopStart - 2)

\* the loop has been entered: its first statement has run or is about to
LoopEntered == pc >= LoopStart \/ Iterations # {}

\* C12: a call of the setup that reported failure is the last call the process
\* made, the process has terminated at the statement that made it, and the
\* loop was not entered; the same holds for a size resolution that threw; and
\* when the loop has been entered every setup call was made and succeeded,
\* every tensor of both units has its buffer, and both graphs are
\* instantiated.
C12_SetupFailureTerminates ==
    /\ \A p \in Positions :
          (trace[p].op \in CheckedOps /\ ~trace[p].ok)
          => /\ p = Len(trace)
             /\ status = Terminated
             /\ Cur.op = StatementOf(trace[p].op)
             /\ Cur.unit = trace[p].unit
             /\ pc \in SetupSteps => ~LoopEntered
    /\ \A u \in Units : \A idx \in DOMAIN io[u] :
          (\A o \in sizeof_main_tensor[io[u][idx].tensor] : o.kind = "throw")
          => /\ status = Terminated
             /\ pc = SetIoStep(u)
             /\ idx = Len(io[u])
             /\ \A v \in Units : v > u => io[v] = <<>>
             /\ \A x \in Positions : trace[x].op \notin
                   {"cudaStreamCreate", "enqueueV3", "cudaStreamSynchronize",
                    "cudaStreamBeginCapture", "cudaStreamEndCapture",
                    "cudaGraphInstantiate", "cudaGraphLaunch", "report"}
    /\ status = Terminated => pc \in DOMAIN main_program
    /\ LoopEntered
       => /\ \A q \in SetupSteps :
                main_program[q].op \notin {"load_plans", "set_io"}
                => \E p \in Positions :
                      /\ StatementOf(trace[p].op) = main_program[q].op
                      /\ trace[p].unit = main_program[q].unit
                      /\ trace[p].ok
          /\ \A u \in Units :
                /\ graph[u].exec
                /\ stream[u].created
                /\ Len(io[u]) = numIO[u]
                /\ Len(BuffersOf(u)) = numIO[u]
          /\ \A p \in Positions :
                (trace[p].op \in CheckedOps /\ ~trace[p].ok)
                => \E r \in Positions : r < p /\ IsOp(r, "report")

\* C12's case: unit 0 was set up as far as its graph, and beginning the
\* capture of unit 1 failed
C12_Witness ==
    /\ graph[0].exec
    /\ \E p \in Positions :
          IsOp(p, "cudaStreamBeginCapture") /\ trace[p].unit = 1 /\ ~trace[p].ok

(***************************************************************************)
(* A bind call that reports failure.                                       *)
(***************************************************************************)
\* the calls that run or record an execution of a unit
ExecutionOps ==
    {"enqueueV3", "cudaStreamBeginCapture", "cudaStreamEndCapture",
     "cudaGraphInstantiate", "cudaGraphLaunch"}

\* a bind call for unit u reported failure at position p
BindFailedAt(p, u) ==
    /\ trace[p].op \in BindOps
    /\ trace[p].unit = u
    /\ ~trace[p].ok

\* C13 (as claimed), second half only: no warm-up execution, capture or launch
\* is made on a unit after one of its bind calls reported failure.
C13_NoExecutionAfterBindFailure ==
    \A u \in Units : \A p \in Positions :
       BindFailedAt(p, u)
       => \A q \in Positions :
             (q > p /\ trace[q].unit = u) => trace[q].op \notin ExecutionOps

\* C13 (as claimed): a bind call that reported failure ends the process at
\* set_io, and no warm-up execution, capture or launch is ever made on that
\* unit.
C13_BindFailureTerminates ==
    /\ \A u \in Units : \A p \in Positions :
          BindFailedAt(p, u)
          => /\ status # "running"
             /\ pc = SetIoStep(u)
    /\ C13_NoExecutionAfterBindFailure

(***************************************************************************)
(* How the process ends.                                                   *)
(***************************************************************************)
\* the last call made reported failure and is one that throws on failure
LastCallThrew ==
    /\ trace # <<>>
    /\ trace[Len(trace)].op \in CheckedOps
    /\ ~trace[Len(trace)].ok

\* the size resolution of the tensor set_io visited last threw
LastSizeThrew ==
    /\ Cur.op = "set_io"
    /\ io[Cur.unit] # <<>>
    /\ \A o \in sizeof_main_tensor[io[Cur.unit][Len(io[Cur.unit])].tensor] :
          o.kind = "throw"

\* a destructor's cudaFreeHost failed, or set_io met a tensor that is neither
\* an input nor an output
LastStepAborted ==
    /\ Cur.op = "set_io"
    /\ \/ /\ trace # <<>>
          /\ IsOp(Len(trace), "cudaFreeHost")
          /\ ~trace[Len(trace)].ok
       \/ /\ io[Cur.unit] # <<>>
          /\ io[Cur.unit][Len(io[Cur.unit])].mode \notin {"kINPUT", "kOUTPUT"}

\* C14: main never returns: the statement return 0 is never reached and the
\* process never ends normally (after each pass the loop goes back to the
\* head of its body); and when the process has ended it has ended through an
\* exception nobody handles or through std::abort.
C14_NormalExitUnreachable ==
    /\ status # "returned"
    /\ pc \in DOMAIN main_program
    /\ Cur.op # "return"
    /\ status \in {"running", Terminated, "aborted"}
    /\ status = Terminated => (LastCallThrew \/ LastSizeThrew)
    /\ status = "aborted" => LastStepAborted

\* C14's case: the loop has gone round: the counter was incremented, the
\* condition evaluated and the body entered again
C14_Witness ==
    /\ status = "running"
    /\ iter >= 1
    /\ pc = LoopStart

(***************************************************************************)
(* Progress of the loop.                                                   *)
(***************************************************************************)
RandomizeAt(p, u) == IsOp(p, "randomize") /\ trace[p].unit = u

\* iteration n has been reported and both of its synchronize calls returned
\* successfully
Completed(n) ==
    LET it == InIteration(n)
    IN  \A s \in Units : \E p \in it : SyncAt(p, s) /\ trace[p].ok

\* every call made so far succeeded, every size was resolved and every tensor
\* was an input or an output
NoFailureSoFar ==
    /\ \A p \in Positions : trace[p].op \in CheckedOps => trace[p].ok
    /\ \A p \in Positions : IsOp(p, "cudaFreeHost") => trace[p].ok
    /\ \A u \in Units : \A idx \in DOMAIN io[u] :
          /\ io[u][idx].mode \in {"kINPUT", "kOUTPUT"}
          /\ \E o \in sizeof_main_tensor[io[u][idx].tensor] : o.kind = "return"

\* in every iteration, a launch comes after the randomize of the buffers of
\* unit 0 and of unit 1 of that iteration
RandomizedBeforeLaunch ==
    \A n \in Iterations :
       LET it == InIteration(n)
       IN  \A p \in it : IsOp(p, "cudaGraphLaunch")
              => \A u \in Units : \E r \in it : r < p /\ RandomizeAt(r, u)

\* C15: as long as no call fails, the process keeps running (no failure is
\* raised), every launch of an iteration comes after the buffers of both units
\* were randomized in that iteration, and every iteration the model follows is
\* eventually completed unless a call has failed.
C15_IterationsComplete ==
    /\ [](NoFailureSoFar => status = "running")
    /\ []RandomizedBeforeLaunch
    /\ \A n \in 0..(MaxIter - 1) : <>(~NoFailureSoFar \/ Completed(n))

\* C15's case: every call succeeded and the last iteration the model follows
\* is complete
C15_Witness ==
    /\ NoFailureSoFar
    /\ status = "running"
    /\ Completed(MaxIter - 1)
    /\ \A n \in 0..(MaxIter - 1) : n \in Iterations

(***************************************************************************)
(* The reported counter.                                                   *)
(***************************************************************************)
Reports == { p \in Positions : IsOp(p, "report") }

\* the iterations reported before position p in which both synchronize calls
\* returned successfully
CompletedBefore(p) ==
    { n \in Iterations : ReportAt(n) < p /\ Completed(n) }

\* C16: the first value reported is 0, each later report is one more than the
\* report before it, no value is reported twice, and the value reported is the
\* number of iterations completed (both synchronize calls returned
\* successfully) when it is reported.
C16_CounterCountsCompleted ==
    \A p \in Reports :
       /\ (\A q \in Reports : p <= q) => trace[p].arg = 0
       /\ \A q \in Reports :
             (q < p /\ \A x \in Reports : ~(q < x /\ x < p))
             => trace[p].arg = trace[q].arg + 1
       /\ \A q \in Reports : trace[q].arg = trace[p].arg => q = p
       /\ trace[p].arg = Cardinality(CompletedBefore(p))

\* C16's case: the second report was made, after a complete first iteration
C16_Witness ==
    \E p, q \in Reports :
       /\ q < p
       /\ trace[q].arg = 0
       /\ trace[p].arg = 1
       /\ Completed(0)

(***************************************************************************)
(* A unit after its graph was instantiated.                                *)
(***************************************************************************)
\* the position at which the graph of unit u was instantiated, or 0
ReplayableAt(u) ==
    LET at == { p \in Positions : /\ IsOp(p, "cudaGraphInstantiate")
                                  /\ trace[p].unit = u /\ trace[p].ok }
    IN  IF at = {} THEN 0 ELSE CHOOSE p \in at : \A q \in at : p <= q

\* the call at position p uses unit u: its context, buffers or graph, or its
\* stream
Uses(p, u) == trace[p].unit = u \/ trace[p].stream = u

\* C17: after the graph of a unit was instantiated, every call that uses the
\* unit or its stream is a randomize of its buffers, a launch of its graph on
\* its own stream or a synchronize of its own stream; its buffers, their
\* regions and its address table stay as they were (no allocation, release or
\* binding), and nothing is being captured on its stream.
C17_ReplayableIsTerminal ==
    \A u \in Units :
       LET r == ReplayableAt(u)
       IN  r # 0
           => /\ \A p \in Positions :
                    (p > r /\ Uses(p, u))
                    => /\ trace[p].unit = u
                       /\ \/ RandomizeAt(p, u)
                          \/ LaunchAt(p, u)
                          \/ SyncAt(p, u)
              /\ ~stream[u].capturing
              /\ Len(BuffersOf(u)) = numIO[u]
              /\ Len(bound[u]) = numIO[u]
              /\ \A j \in DOMAIN BuffersOf(u) :
                    LiveBufferOf(u, BuffersOf(u)[j].ptr_)
              /\ Cardinality(CallsOf(u, "cudaMallocHost")) = numIO[u]

\* C17's case: unit 0 was instantiated, and in the second iteration its
\* buffers were randomized, its graph launched and its stream synchronized
C17_Witness ==
    /\ ReplayableAt(0) # 0
    /\ \E a, b, c \in InIteration(1) :
          /\ a < b /\ b < c
          /\ RandomizeAt(a, 0) /\ LaunchAt(b, 0) /\ SyncAt(c, 0)

(***************************************************************************)
(* Host writes against device work.                                        *)
(***************************************************************************)
\* the call at position p submitted an execution on stream s
SubmittedAt(p, s) ==
    /\ trace[p].op \in {"enqueueV3", "cudaGraphLaunch"}
    /\ trace[p].stream = s
    /\ trace[p].ok

\* the addresses the context of unit u was handed or holds
AddressesOf(u) ==
    ({ bound[u][i] : i \in DOMAIN bound[u] }
       \cup { trace[p].arg : p \in { x \in Positions : /\ trace[x].op \in BindOps
                                                       /\ trace[x].unit = u } })
      \ {nullptr}

\* C18: when the buffers of a unit are randomized, every execution submitted
\* before on the unit's stream (the warm-up enqueue, the captured enqueue,
\* the launches of earlier iterations) was followed by a synchronize of that
\* stream that returned successfully, so no work is outstanding on it; and no
\* address of a buffer of one unit is bound in the context of the other.
C18_NoWriteWhileOutstanding ==
    /\ \A p \in Positions :
          IsOp(p, "randomize")
          => \A q \in Positions :
                (q < p /\ SubmittedAt(q, trace[p].unit))
                => \E y \in Positions :
                      /\ q < y /\ y < p
                      /\ SyncAt(y, trace[p].unit) /\ trace[y].ok
    /\ Running("randomize") => stream[Cur.unit].outstanding = 0
    /\ \A u, v \in Units :
          u # v
          => /\ AddressesOf(u) \cap AddressesOf(v) = {}
             /\ \A j \in DOMAIN BuffersOf(v) :
                   BuffersOf(v)[j].ptr_ \notin AddressesOf(u)

\* C18's case: in the second iteration the buffers of unit 1, which has a
\* buffer, were randomized, and unit 0 has a buffer as well
C18_Witness ==
    /\ \E p \in InIteration(1) : RandomizeAt(p, 1)
    /\ AddressesOf(0) # {}
    /\ AddressesOf(1) # {}

(***************************************************************************)
(* What set_io leaves behind.                                              *)
(***************************************************************************)
\* the positions of the bind calls made for unit u
BindCalls(u) ==
    { p \in Positions : trace[p].op \in BindOps /\ trace[p].unit = u }

\* the position of the bind call made for tensor idx of unit u (the idx-th
\* bind call for the unit)
BindCallOf(u, idx) ==
    CHOOSE p \in BindCalls(u) :
       Cardinality({ q \in BindCalls(u) : q <= p }) = idx

\* the tensors of unit u up to idx that have mode m
WithMode(u, idx, m) == { i \in 1..idx : io[u][i].mode = m }

\* the size sizeof_tensor returns for tensor t
ResolvedSize(t) ==
    LET o == CHOOSE x \in sizeof_main_tensor[t] : x.kind = "return"
    IN  SizeTToNat(o.size)

\* C19: when set_io has returned for a unit whose engine has n I/O tensors,
\* n buffers were allocated, one for each tensor and of the size
\* sizeof_tensor returns for it; the buffer of the k-th input tensor is the
\* k-th element of inputs and that of the k-th output tensor the k-th element
\* of outputs, each bound with the call for its direction; and a tensor that
\* is neither input nor output has aborted the process, with no buffer for it
\* in either vector.
C19_SetIoBuffers ==
    \A u \in Units :
       /\ SetIoDone(u)
          => /\ Len(io[u]) = numIO[u]
             /\ Cardinality(CallsOf(u, "cudaMallocHost")) = numIO[u]
             /\ \A p \in CallsOf(u, "cudaMallocHost") : trace[p].ok
             /\ Cardinality(BindCalls(u)) = numIO[u]
             /\ Len(buffers[u].inputs) = Cardinality(WithMode(u, numIO[u], "kINPUT"))
             /\ Len(buffers[u].outputs) = Cardinality(WithMode(u, numIO[u], "kOUTPUT"))
             /\ Len(BuffersOf(u)) = numIO[u]
             /\ \A idx \in DOMAIN io[u] :
                   LET b == BindCallOf(u, idx)
                       a == trace[b].arg
                       m == io[u][idx].mode
                       k == Cardinality(WithMode(u, idx, m))
                   IN  /\ m \in {"kINPUT", "kOUTPUT"}
                       /\ trace[b].op = IF m = "kINPUT" THEN "setInputTensorAddress"
                                        ELSE "setTensorAddress"
                       /\ IF m = "kINPUT"
                          THEN buffers[u].inputs[k].ptr_ = a
                          ELSE buffers[u].outputs[k].ptr_ = a
                       /\ LiveBufferOf(u, a)
                       /\ heap[a].size = ResolvedSize(io[u][idx].tensor)
       /\ \A idx \in DOMAIN io[u] :
             io[u][idx].mode \notin {"kINPUT", "kOUTPUT"}
             => /\ idx = Len(io[u])
                /\ Cur.op = "set_io" /\ Cur.unit = u
                /\ status \in {Terminated, "aborted"}
                /\ Len(BuffersOf(u)) = idx - 1
                /\ Cardinality(BindCalls(u)) = idx - 1
                /\ (\E o \in sizeof_main_tensor[io[u][idx].tensor] : o.kind = "return")
                   => (status = "aborted" \/ LastCallThrew)

\* C19's case: set_io has returned for a unit with inputs and an output, the
\* second input having come after the output
C19_Witness ==
    \E u \in Units :
       /\ SetIoDone(u)
       /\ numIO[u] = 3
       /\ io[u][1].mode = "kINPUT"
       /\ io[u][2].mode = "kOUTPUT"
       /\ io[u][3].mode = "kINPUT"
       /\ Len(buffers[u].inputs) = 2

\* C19's other case: the second tensor of a unit was neither an input nor an
\* output and std::abort() was called
C19_WitnessBadMode ==
    \E u \in Units :
       /\ Len(io[u]) = 2
       /\ io[u][2].mode = "kNONE"
       /\ status = "aborted"

(***************************************************************************)
(* SpecDtor: HostMemory and Stream objects constructed and destroyed in    *)
(* any order, every call of a constructor or destructor free to fail.      *)
(* A stream is "none" (not constructed), "live" or "destroyed".            *)
(***************************************************************************)
\* the size of the buffers of SpecDtor
DtorBufSize == 12

InitDtor ==
    /\ SizeIdle
    /\ pc = 0
    /\ status = "idle"
    /\ iter = 0
    /\ numIO = <<>>
    /\ io = <<>>
    /\ buffers = <<>>
    /\ bound = <<>>
    /\ graph = <<>>
    /\ trace = <<>>
    /\ stream = [s \in Units |-> "none"]
    /\ heap = EmptyHeap(MaxRegions)
    /\ objs = [o \in Objects |-> NoObject]
    /\ gen = 0
    /\ memStatus = MemOp("start", 0, "ok", nullptr)

\* Stream stream, lines 134-139: cudaStreamCreate, std::runtime_error when it
\* failed (and then no object exists)
StreamConstruct(s) ==
    /\ memStatus.result # "aborted"
    /\ stream[s] = "none"
    /\ \E ok \in BOOLEAN :
          /\ stream' = IF ok THEN [stream EXCEPT ![s] = "live"] ELSE stream
          /\ memStatus' = MemOp("construct_stream", s,
                                IF ok THEN "ok" ELSE "runtime_error", nullptr)
    /\ UNCHANGED <<heap, objs, gen, sizeVars, pc, status, iter, numIO, io,
                   buffers, bound, graph, trace>>

\* ~Stream, lines 141-148; the stream is gone once cudaStreamDestroy succeeded
StreamDestroy(s) ==
    /\ memStatus.result # "aborted"
    /\ stream[s] = "live"
    /\ \E syncOk, destroyOk \in BOOLEAN :
          LET d == Stream_dtor(syncOk, destroyOk)
          IN  /\ memStatus' = [MemOp("destroy_stream", s, d.result, nullptr)
                                 EXCEPT !.calls = d.calls]
              /\ stream' = IF d.result = "ok"
                           THEN [stream EXCEPT ![s] = "destroyed"]
                           ELSE stream
    /\ UNCHANGED <<heap, objs, gen, sizeVars, pc, status, iter, numIO, io,
                   buffers, bound, graph, trace>>

NextDtor ==
    \/ \E o \in Objects : Construct(o, DtorBufSize)
    \/ \E o \in Objects : ConstructFails(o, DtorBufSize)
    \/ \E o \in Objects, src \in Objects : MoveConstruct(o, src)
    \/ \E o \in Objects : Destroy(o)
    \/ \E s \in Units : StreamConstruct(s)
    \/ \E s \in Units : StreamDestroy(s)

SpecDtor == InitDtor /\ [][NextDtor]_vars

\* the last operation was a destructor
InDtor == memStatus.op \in {"destroy", "destroy_stream"}

\* the calls the destructor of the last operation made that failed
FailedDtorCalls ==
    { k \in DOMAIN memStatus.calls : ~memStatus.calls[k].ok }

\* a destructor ends by returning or in std::abort(), never in an exception or
\* an error value; it has aborted exactly when a call it made failed, and
\* that call is the last thing it did
DtorOutcome ==
    InDtor
    => /\ memStatus.result \in {"ok", "aborted"}
       /\ memStatus.result = "aborted" <=> FailedDtorCalls # {}
       /\ \A k \in FailedDtorCalls : k = Len(memStatus.calls)
       /\ memStatus.op = "destroy"
          => /\ Len(memStatus.calls) = 1
             /\ memStatus.calls[1].op = "cudaFreeHost"
       /\ memStatus.op = "destroy_stream"
          => /\ memStatus.calls[1].op = "cudaStreamSynchronize"
             /\ memStatus.calls[1].ok
                => /\ Len(memStatus.calls) = 2
                   /\ memStatus.calls[2].op = "cudaStreamDestroy"

\* C20: a call that fails inside ~HostMemory or ~Stream ends the destructor
\* in std::abort() (no exception leaves it and it returns no error), and once
\* the process has aborted no operation runs: no step is taken from an
\* aborted state.
C20_DtorFailureAborts ==
    /\ []DtorOutcome
    /\ [][memStatus.result # "aborted"]_vars

\* C20's case: ~Stream has aborted because cudaStreamDestroy failed after a
\* successful synchronize, with a buffer still alive
C20_Witness ==
    /\ memStatus.op = "destroy_stream"
    /\ memStatus.result = "aborted"
    /\ Len(memStatus.calls) = 2
    /\ \E o \in DOMAIN objs : objs[o].state = "live"

\* C20's other cases: ~Stream has aborted at its synchronize; ~HostMemory has
\* aborted at cudaFreeHost
C20_WitnessSynchronize ==
    /\ memStatus.op = "destroy_stream"
    /\ memStatus.result = "aborted"
    /\ Len(memStatus.calls) = 1

C20_WitnessFree ==
    /\ memStatus.op = "destroy"
    /\ memStatus.result = "aborted"
    /\ stream[0] = "live"

====
